---- MODULE Spec2Model ----
(***************************************************************************)
(* Clinic AI Chatbot (src/main.py): the chat window's two handlers,        *)
(* send_message and extract_report, with the three gateway functions       *)
(* get_ai_response, generate_summary and generate_near_diagnosis.          *)
(*                                                                         *)
(* Text is a sequence of one-character strings, so that str.strip(),       *)
(* str.lower(), prefixing, joining and splitting are computed character by *)
(* character.  The remote completion endpoint, the name dialog and the     *)
(* typing in the input field are the environment: their results are drawn  *)
(* from the small sets below.                                              *)
(***************************************************************************)
EXTENDS Integers, Sequences, FiniteSets, TLC

VARIABLES conversation_history, chat_history, input_field,
          conversation_json, report_pdf, raw_info,
          remote_calls, event, crashed

vars == <<conversation_history, chat_history, input_field,
          conversation_json, report_pdf, raw_info,
          remote_calls, event, crashed>>

(* ------------------------------ bounds -------------------------------- *)
\* non-empty submissions in one session of the window
MaxSends == 1
\* submissions of a transcript the Field Extractor is applied to
MaxTurns == 5

(* ------------------------------- text --------------------------------- *)
RECURSIVE LStrip(_)
RECURSIVE RStrip(_)
RECURSIVE SplitLines(_)
RECURSIVE JoinLines(_)
RECURSIVE Filter(_, _)
RECURSIVE DictPut(_, _, _)
RECURSIVE ParsePairs(_, _)
RECURSIVE DumpMessages(_)

WHITESPACE == {" ", "\t", "\n"}

UPPERCASE == <<"A", "B", "C", "D", "E", "F", "G", "H", "I", "J", "K", "L", "M", "N", "O", "P", "Q", "R", "S", "T", "U", "V", "W", "X", "Y", "Z">>
LOWERCASE == <<"a", "b", "c", "d", "e", "f", "g", "h", "i", "j", "k", "l", "m", "n", "o", "p", "q", "r", "s", "t", "u", "v", "w", "x", "y", "z">>

LStrip(s) ==
    IF s # <<>> /\ Head(s) \in WHITESPACE THEN LStrip(Tail(s)) ELSE s

RStrip(s) ==
    IF s # <<>> /\ s[Len(s)] \in WHITESPACE
    THEN RStrip(SubSeq(s, 1, Len(s) - 1)) ELSE s

StripNothing(s) == s

\* str.strip()
Strip(s) == RStrip(LStrip(s))

LowerChar(c) ==
    IF \E i \in 1..Len(UPPERCASE) : UPPERCASE[i] = c
    THEN LOWERCASE[CHOOSE i \in 1..Len(UPPERCASE) : UPPERCASE[i] = c]
    ELSE c

LowerIdentity(s) == s

\* str.lower()
Lower(s) == [i \in 1..Len(s) |-> LowerChar(s[i])]

\* QTextEdit.toPlainText(): the paragraphs joined by newlines
JoinLines(ls) ==
    IF ls = <<>> THEN <<>>
    ELSE IF Len(ls) = 1 THEN ls[1]
    ELSE ls[1] \o <<"\n">> \o JoinLines(Tail(ls))

\* str.split("\n")
SplitLines(s) ==
    IF \A i \in 1..Len(s) : s[i] # "\n" THEN <<s>>
    ELSE LET k == CHOOSE i \in 1..Len(s) :
                      s[i] = "\n" /\ \A j \in 1..(i - 1) : s[j] # "\n"
         IN  <<SubSeq(s, 1, k - 1)>> \o SplitLines(SubSeq(s, k + 1, Len(s)))

\* the elements of a sequence for which the flag sequence holds, in order
Filter(s, keep) ==
    IF s = <<>> THEN <<>>
    ELSE (IF keep[1] THEN <<s[1]>> ELSE <<>>) \o Filter(Tail(s), Tail(keep))

(* ----------------------------- constants ------------------------------ *)
USER == <<"u", "s", "e", "r">>
ASSISTANT == <<"a", "s", "s", "i", "s", "t", "a", "n", "t">>
ROLE_KEY == <<"r", "o", "l", "e">>
CONTENT_KEY == <<"c", "o", "n", "t", "e", "n", "t">>

INITIAL_MESSAGE == <<"H", "e", "l", "l", "o", "!", " ", "I", "'", "m", " ", "h", "e", "r", "e", " ", "t", "o", " ", "a", "s", "s", "i", "s", "t", " ", "y", "o", "u", "r", " ", "d", "o", "c", "t", "o", "r", " ", "w", "i", "t", "h", " ", "t", "h", "e", " ", "n", "e", "c", "e", "s", "s", "a", "r", "y", " ", "d", "e", "t", "a", "i", "l", "s", " ", "y", "o", "u", " ", "p", "r", "o", "v", "i", "d", "e", " ", "h", "e", "r", "e", ".", " ", "W", "h", "a", "t", " ", "s", "y", "m", "p", "t", "o", "m", "s", " ", "a", "r", "e", " ", "y", "o", "u", " ", "e", "x", "p", "e", "r", "i", "e", "n", "c", "i", "n", "g", "?">>
USER_PREFIX == <<"U", "s", "e", "r", ":", " ">>
AI_PREFIX == <<"A", "I", ":", " ">>
ERROR_PREFIX == <<"E", "r", "r", "o", "r", ":", " ">>
DIAG_ERROR_PREFIX == <<"E", "r", "r", "o", "r", " ", "g", "e", "n", "e", "r", "a", "t", "i", "n", "g", " ", "n", "e", "a", "r", " ", "d", "i", "a", "g", "n", "o", "s", "i", "s", ":", " ">>
SUMMARY_ERROR == <<"E", "r", "r", "o", "r", " ", "g", "e", "n", "e", "r", "a", "t", "i", "n", "g", " ", "s", "u", "m", "m", "a", "r", "y", ".">>
NOT_SPECIFIED == <<"N", "o", "t", " ", "s", "p", "e", "c", "i", "f", "i", "e", "d">>
UNKNOWN == <<"U", "n", "k", "n", "o", "w", "n">>
GREETINGS == {<<"h", "e", "l", "l", "o">>, <<"h", "i">>}

K_PATIENT == <<"P", "a", "t", "i", "e", "n", "t", " ", "N", "a", "m", "e">>
K_SYMPTOMS == <<"S", "y", "m", "p", "t", "o", "m", "s">>
K_DURATION == <<"D", "u", "r", "a", "t", "i", "o", "n">>
K_SEVERITY == <<"S", "e", "v", "e", "r", "i", "t", "y">>
K_ADDITIONAL == <<"A", "d", "d", "i", "t", "i", "o", "n", "a", "l", " ", "I", "n", "f", "o">>
SUMMARY_KEYS == <<K_SYMPTOMS, K_DURATION, K_SEVERITY, K_ADDITIONAL>>

(* ---------------------------- environment ----------------------------- *)
\* what the patient can type into the input field
Inputs == { <<" ", " ">>, <<" ", "H", "I", " ">>, <<"f", "e", "v", "e", "r">> }

\* submissions of the transcripts the Field Extractor is applied to
Answers == { <<"H", "e", "l", "l", "o">>, <<"H", "I">>, <<"h", "e", "l", "l", "o", " ", "t", "h", "e", "r", "e">>, <<"f", "e", "v", "e", "r">> }

\* a remote call returns a message content or raises with a detail text
Completion(c) == [ok |-> TRUE, content |-> c, detail |-> <<>>]
Failure(d) == [ok |-> FALSE, content |-> <<>>, detail |-> d]

ReplyOutcomes == { Completion(<<" ", "H", "o", "w", " ", "l", "o", "n", "g", "?", " ">>), Failure(<<"t", "i", "m", "e", "o", "u", "t">>) }

DiagnosisOutcomes == { Completion(<<" ", "L", "i", "k", "e", "l", "y", " ", "f", "l", "u", ".", " ">>), Failure(<<"r", "a", "t", "e", " ", "l", "i", "m", "i", "t">>) }

\* the name dialog: (text, ok)
NameOutcomes == { [text |-> <<"A", "n", "n", " ">>, ok |-> TRUE],
                  [text |-> <<" ">>, ok |-> FALSE] }

(* ------------------------------- JSON --------------------------------- *)
\* a JSON text is a sequence of tokens: punctuation, string literals, words
P(c) == [t |-> "punct", v |-> <<c>>]
S(s) == [t |-> "string", v |-> s]
W(s) == [t |-> "word", v |-> s]

\* a dict is a sequence of <<key, value>> pairs in insertion order
DictHas(d, k) == \E i \in 1..Len(d) : d[i][1] = k

\* dict.get(k, default)
DictGet(d, k, default) ==
    IF DictHas(d, k) THEN d[CHOOSE i \in 1..Len(d) : d[i][1] = k][2]
    ELSE default

\* d[k] = v
DictPut(d, k, v) ==
    IF d = <<>> THEN << <<k, v>> >>
    ELSE IF d[1][1] = k THEN << <<k, v>> >> \o Tail(d)
    ELSE <<d[1]>> \o DictPut(Tail(d), k, v)

DumpMessage(m) ==
    <<P("{"), S(ROLE_KEY), P(":"), S(m.role), P(","),
      S(CONTENT_KEY), P(":"), S(m.content), P("}")>>

DumpMessages(h) ==
    IF h = <<>> THEN <<>>
    ELSE IF Len(h) = 1 THEN DumpMessage(h[1])
    ELSE DumpMessage(h[1]) \o <<P(",")>> \o DumpMessages(Tail(h))

\* json.dump / json.dumps of the message list
JsonDump(h) == <<P("[")>> \o DumpMessages(h) \o <<P("]")>>

\* the members of a flat object between its braces: string ":" string
\* separated by ","; a later duplicate key replaces the earlier value
ParsePairs(toks, acc) ==
    IF Len(toks) < 3 \/ toks[1].t # "string" \/ toks[2] # P(":")
       \/ toks[3].t # "string"
    THEN [ok |-> FALSE, obj |-> <<>>]
    ELSE LET d == DictPut(acc, toks[1].v, toks[3].v)
         IN  IF Len(toks) = 3 THEN [ok |-> TRUE, obj |-> d]
             ELSE IF toks[4] # P(",") THEN [ok |-> FALSE, obj |-> <<>>]
             ELSE ParsePairs(SubSeq(toks, 5, Len(toks)), d)

\* json.loads on the documents of SummaryOutcomes: an object of string
\* members, the empty array, a string, null; anything else raises
JsonLoads(toks) ==
    LET bad == [ok |-> FALSE, kind |-> "none", obj |-> <<>>]
        n == Len(toks)
    IN  IF n = 0 THEN bad
        ELSE IF n = 1 /\ toks[1].t = "string"
             THEN [ok |-> TRUE, kind |-> "str", obj |-> <<>>]
        ELSE IF toks = <<W(<<"n", "u", "l", "l">>)>>
             THEN [ok |-> TRUE, kind |-> "NoneType", obj |-> <<>>]
        ELSE IF toks = <<P("["), P("]")>>
             THEN [ok |-> TRUE, kind |-> "list", obj |-> <<>>]
        ELSE IF toks = <<P("{"), P("}")>>
             THEN [ok |-> TRUE, kind |-> "dict", obj |-> <<>>]
        ELSE IF n >= 2 /\ toks[1] = P("{") /\ toks[n] = P("}")
             THEN LET r == ParsePairs(SubSeq(toks, 2, n - 1), <<>>)
                  IN  IF r.ok THEN [ok |-> TRUE, kind |-> "dict", obj |-> r.obj]
                      ELSE bad
        ELSE bad

\* what the summarizing model answers, key by key
GATEWAY_VALUES == <<<<"c", "o", "u", "g", "h", " ", "a", "n", "d", " ", "f", "e", "v", "e", "r">>, <<"a", "b", "o", "u", "t", " ", "t", "h", "r", "e", "e", " ", "d", "a", "y", "s">>, <<"m", "o", "d", "e", "r", "a", "t", "e">>, <<"n", "o", "n", "e", " ", "r", "e", "p", "o", "r", "t", "e", "d">>>>

RECURSIVE MemberTokens(_)
MemberTokens(idx) ==
    IF idx = <<>> THEN <<>>
    ELSE <<S(SUMMARY_KEYS[idx[1]]), P(":"), S(GATEWAY_VALUES[idx[1]])>>
         \o (IF Len(idx) = 1 THEN <<>> ELSE <<P(",")>>)
         \o MemberTokens(Tail(idx))

\* the JSON object holding the keys numbered in ks
SummaryObject(ks) ==
    <<P("{")>> \o MemberTokens(Filter(<<1, 2, 3, 4>>, [i \in 1..4 |-> i \in ks]))
    \o <<P("}")>>

SummaryOutcomes ==
    \* objects holding no key, one key, all four keys
    { Completion(SummaryObject(ks)) :
          ks \in {k \in SUBSET (1..4) : Cardinality(k) \in {0, 1, 4}} }
    \* other JSON values, a text that is not JSON, a failed call
    \cup { Completion(<<P("["), P("]")>>),
           Completion(<<S(<<"f", "e", "v", "e", "r", " ", "f", "o", "r", " ", "t", "h", "r", "e", "e", " ", "d", "a", "y", "s">>)>>),
           Completion(<<P("{"), S(K_SYMPTOMS), P(":"), S(GATEWAY_VALUES[1])>>),
           Failure(<<"t", "i", "m", "e", "o", "u", "t">>) }

NoOutcome == [ok |-> FALSE, content |-> <<>>, detail |-> <<>>]
NoName == [text |-> <<>>, ok |-> FALSE]
NoFile == [exists |-> FALSE, data |-> <<>>]
NoReport == [exists |-> FALSE, extracted_info |-> <<>>,
             chat_transcript |-> <<>>, assumptions |-> <<>>]

Event(op, text, reply, name, summary, diagnosis) ==
    [op |-> op, text |-> text, reply |-> reply, name |-> name,
     summary |-> summary, diagnosis |-> diagnosis]

Message(role, content) == [role |-> role, content |-> content]

(* ------------------------------ gateway ------------------------------- *)
GetAiResponseStoresError(history, user_input, outcome) ==
    LET h1 == Append(history, Message(USER, user_input))
        ret == IF outcome.ok THEN Strip(outcome.content)
               ELSE ERROR_PREFIX \o outcome.detail
    IN  [history |-> Append(h1, Message(ASSISTANT, ret)), ret |-> ret]

GetAiResponseKeepsSystemPrompt(history, user_input, outcome) ==
    LET h1 == <<Message(<<"s", "y", "s", "t", "e", "m">>, <<"Y", "o", "u", " ", "a", "r", "e", " ", "a", " ", "c", "l", "i", "n", "i", "c", "a", "l", " ", "c", "h", "a", "t", "b", "o", "t">>)>>
              \o Append(history, Message(USER, user_input))
    IN  IF outcome.ok
        THEN LET ai_message == Strip(outcome.content)
             IN  [history |-> Append(h1, Message(ASSISTANT, ai_message)),
                  ret |-> ai_message]
        ELSE [history |-> h1, ret |-> ERROR_PREFIX \o outcome.detail]

\* get_ai_response: the history after the call and the returned text
GetAiResponse(history, user_input, outcome) ==
    LET h1 == Append(history, Message(USER, user_input))
    IN  IF outcome.ok
        THEN LET ai_message == Strip(outcome.content)
             IN  [history |-> Append(h1, Message(ASSISTANT, ai_message)),
                  ret |-> ai_message]
        ELSE [history |-> h1, ret |-> ERROR_PREFIX \o outcome.detail]

ErrorSummary ==
    [kind |-> "dict",
     obj |-> [i \in 1..4 |-> <<SUMMARY_KEYS[i], SUMMARY_ERROR>>]]

GenerateSummaryEmptyOnError(outcome) ==
    IF ~outcome.ok THEN [kind |-> "dict", obj |-> <<>>]
    ELSE LET summary == JsonLoads(outcome.content)
         IN  IF summary.ok THEN [kind |-> summary.kind, obj |-> summary.obj]
             ELSE [kind |-> "dict", obj |-> <<>>]

\* generate_summary: the parsed answer, or the placeholder dict
GenerateSummary(outcome) ==
    IF ~outcome.ok THEN ErrorSummary
    ELSE LET summary == JsonLoads(outcome.content)
         IN  IF summary.ok THEN [kind |-> summary.kind, obj |-> summary.obj]
             ELSE ErrorSummary

\* generate_near_diagnosis
GenerateNearDiagnosis(outcome) ==
    IF outcome.ok THEN Strip(outcome.content)
    ELSE DIAG_ERROR_PREFIX \o outcome.detail

(* -------------------------- field extractor --------------------------- *)
\* extract_info_from_conversation
ExtractInfo(history) ==
    LET keep == [i \in 1..Len(history) |->
                    history[i].role = USER
                    /\ Lower(history[i].content) \notin GREETINGS]
        user_responses == Filter([i \in 1..Len(history) |-> history[i].content], keep)
    IN  [k \in 1..4 |-> IF Len(user_responses) > k - 1
                        THEN user_responses[k] ELSE NOT_SPECIFIED]

(* ------------------------------ report -------------------------------- *)
MergeFieldsAllOrNothing(summary, raw) ==
    [i \in 1..4 |->
        <<SUMMARY_KEYS[i],
          IF \A j \in 1..4 : DictHas(summary, SUMMARY_KEYS[j])
          THEN DictGet(summary, SUMMARY_KEYS[i], raw[i]) ELSE raw[i]>>]

\* the four merged fields of extract_report, as (key, value) pairs
MergeFields(summary, raw) ==
    [i \in 1..4 |-> <<SUMMARY_KEYS[i], DictGet(summary, SUMMARY_KEYS[i], raw[i])>>]

\* the transcript lines generate_pdf_report renders
TranscriptLines(chat_transcript) ==
    LET ls == SplitLines(chat_transcript)
        clean == [i \in 1..Len(ls) |-> Strip(ls[i])]
    IN  Filter(clean, [i \in 1..Len(ls) |-> clean[i] # <<>>])

\* generate_pdf_report: the content of clinic_chatbot_report.pdf
GeneratePdfReport(extracted_info, chat_transcript, assumptions) ==
    [exists |-> TRUE, extracted_info |-> extracted_info,
     chat_transcript |-> TranscriptLines(chat_transcript),
     assumptions |-> assumptions]

WriteExportAppending(file, history) ==
    [exists |-> TRUE, data |-> file.data \o JsonDump(history)]

\* open("conversation.json", "w") followed by json.dump
WriteExport(file, history) == [exists |-> TRUE, data |-> JsonDump(history)]

(* ------------------------------ window -------------------------------- *)
NumSends == Cardinality({i \in 1..Len(conversation_history) :
                            conversation_history[i].role = USER})

\* ChatWindow.__init__
Init ==
    /\ conversation_history = <<Message(ASSISTANT, INITIAL_MESSAGE)>>
    /\ chat_history = <<AI_PREFIX \o INITIAL_MESSAGE>>
    /\ input_field = <<>>
    /\ conversation_json = NoFile
    /\ report_pdf = NoReport
    /\ raw_info = <<>>
    /\ remote_calls = <<>>
    /\ event = Event("init", <<>>, NoOutcome, NoName, NoOutcome, NoOutcome)
    /\ crashed = FALSE

\* the body of send_message for a non-empty text: history and view after it
Submit(history, view, user_text, outcome) ==
    LET r == GetAiResponse(history, user_text, outcome)
    IN  [history |-> r.history,
         view |-> view \o <<USER_PREFIX \o user_text, AI_PREFIX \o r.ret>>]

\* the patient edits the input field
TypeText ==
    /\ ~crashed
    /\ \E text \in Inputs :
          /\ input_field' = text
          /\ event' = Event("type", text, NoOutcome, NoName, NoOutcome, NoOutcome)
    /\ remote_calls' = <<>>
    /\ UNCHANGED <<conversation_history, chat_history, conversation_json,
                   report_pdf, raw_info, crashed>>

\* ChatWindow.send_message
SendMessage ==
    /\ ~crashed
    /\ LET user_text == Strip(input_field)
       IN  IF user_text # <<>>
           THEN /\ NumSends < MaxSends
                /\ \E outcome \in ReplyOutcomes :
                      LET r == Submit(conversation_history, chat_history,
                                      user_text, outcome)
                      IN  /\ conversation_history' = r.history
                          /\ chat_history' = r.view
                          /\ event' = Event("send", input_field, outcome,
                                            NoName, NoOutcome, NoOutcome)
                /\ input_field' = <<>>
                /\ remote_calls' = <<"reply">>
           ELSE /\ event' = Event("send", input_field, NoOutcome,
                                  NoName, NoOutcome, NoOutcome)
                /\ remote_calls' = <<>>
                /\ UNCHANGED <<conversation_history, chat_history, input_field>>
    /\ UNCHANGED <<conversation_json, report_pdf, raw_info, crashed>>

ExtractReportStoresDiagnosis ==
    /\ ~crashed
    /\ LET raw == ExtractInfo(conversation_history)
           export == WriteExport(conversation_json, conversation_history)
           chat_transcript == JoinLines(chat_history)
       IN  /\ raw_info' = raw
           /\ conversation_json' = export
           /\ \E name \in NameOutcomes, so \in SummaryOutcomes :
                 LET patient_name == IF ~name.ok \/ Strip(name.text) = <<>>
                                     THEN UNKNOWN ELSE name.text
                     summary == GenerateSummary(so)
                 IN  IF summary.kind = "dict"
                     THEN \E do \in DiagnosisOutcomes :
                            LET extracted_info == << <<K_PATIENT, patient_name>> >>
                                                     \o MergeFields(summary.obj, raw)
                                assumptions == GenerateNearDiagnosis(do)
                            IN  /\ report_pdf' = GeneratePdfReport(extracted_info,
                                                      chat_transcript, assumptions)
                                /\ remote_calls' = <<"summary", "near_diagnosis">>
                                /\ event' = Event("extract", <<>>, NoOutcome, name, so, do)
                                /\ crashed' = FALSE
                                /\ conversation_history' = Append(conversation_history,
                                                               Message(ASSISTANT, assumptions))
                     ELSE \* summary.get raises AttributeError out of the slot
                          /\ report_pdf' = report_pdf
                          /\ remote_calls' = <<"summary">>
                          /\ event' = Event("extract", <<>>, NoOutcome, name, so, NoOutcome)
                          /\ crashed' = TRUE
                          /\ conversation_history' = conversation_history
    /\ UNCHANGED <<chat_history, input_field>>

\* ChatWindow.extract_report
ExtractReport ==
    /\ ~crashed
    /\ LET raw == ExtractInfo(conversation_history)
           export == WriteExport(conversation_json, conversation_history)
           chat_transcript == JoinLines(chat_history)
       IN  /\ raw_info' = raw
           /\ conversation_json' = export
           /\ \E name \in NameOutcomes, so \in SummaryOutcomes :
                 LET patient_name == IF ~name.ok \/ Strip(name.text) = <<>>
                                     THEN UNKNOWN ELSE name.text
                     summary == GenerateSummary(so)
                 IN  IF summary.kind = "dict"
                     THEN \E do \in DiagnosisOutcomes :
                            LET extracted_info == << <<K_PATIENT, patient_name>> >>
                                                     \o MergeFields(summary.obj, raw)
                                assumptions == GenerateNearDiagnosis(do)
                            IN  /\ report_pdf' = GeneratePdfReport(extracted_info,
                                                      chat_transcript, assumptions)
                                /\ remote_calls' = <<"summary", "near_diagnosis">>
                                /\ event' = Event("extract", <<>>, NoOutcome, name, so, do)
                                /\ crashed' = FALSE
                     ELSE \* summary.get raises AttributeError out of the slot
                          /\ report_pdf' = report_pdf
                          /\ remote_calls' = <<"summary">>
                          /\ event' = Event("extract", <<>>, NoOutcome, name, so, NoOutcome)
                          /\ crashed' = TRUE
    /\ UNCHANGED <<conversation_history, chat_history, input_field>>

Next == TypeText \/ SendMessage \/ ExtractReport

Spec == Init /\ [][Next]_vars

(* ------------------- the field extractor on its own ------------------- *)
RECURSIVE Replay(_, _, _)
\* the history and view after the submissions of turns, in order
Replay(history, view, turns) ==
    IF turns = <<>> THEN [history |-> history, view |-> view]
    ELSE LET r == Submit(history, view, turns[1][1], turns[1][2])
         IN  Replay(r.history, r.view, Tail(turns))

\* a window after up to MaxTurns submissions, at most one of them with a
\* failed remote call
InitFE ==
    \E n \in 0..MaxTurns :
       \E answers \in [1..n -> Answers], failed \in 0..n :
          LET turns == [i \in 1..n |->
                          <<answers[i],
                            IF i = failed THEN Failure(<<"t", "i", "m", "e", "o", "u", "t">>)
                            ELSE Completion(<<" ", "H", "o", "w", " ", "l", "o", "n", "g", "?", " ">>)>>]
              r == Replay(<<Message(ASSISTANT, INITIAL_MESSAGE)>>,
                          <<AI_PREFIX \o INITIAL_MESSAGE>>, turns)
          IN  /\ conversation_history = r.history
              /\ chat_history = r.view
              /\ input_field = <<>>
              /\ conversation_json = NoFile
              /\ report_pdf = NoReport
              /\ raw_info = <<>>
              /\ remote_calls = IF n = 0 THEN <<>> ELSE <<"reply">>
              /\ event = IF n = 0
                         THEN Event("init", <<>>, NoOutcome, NoName, NoOutcome, NoOutcome)
                         ELSE Event("send", turns[n][1], turns[n][2],
                                    NoName, NoOutcome, NoOutcome)
              /\ crashed = FALSE

\* ChatWindow.extract_info_from_conversation called on the window
ExtractInfoFromConversation ==
    /\ raw_info = <<>>
    /\ raw_info' = ExtractInfo(conversation_history)
    /\ UNCHANGED <<conversation_history, chat_history, input_field,
                   conversation_json, report_pdf, remote_calls, event, crashed>>

NextFE == ExtractInfoFromConversation

SpecFE == InitFE /\ [][NextFE]_vars

(* ------------------------------ claims -------------------------------- *)
Last(q) == q[Len(q)]

IsPrefix(p, q) == Len(p) <= Len(q) /\ SubSeq(q, 1, Len(p)) = p

\* the text is empty or holds only whitespace
Blank(text) == \A i \in 1..Len(text) : text[i] \in {" ", "\t", "\n"}

\* a send with non-empty input has just run
SentText == event.op = "send" /\ ~Blank(event.text)

\* the text send_message showed to the user as the reply
Shown == IF event.reply.ok THEN Strip(event.reply.content)
         ELSE ERROR_PREFIX \o event.reply.detail

\* the value of the i-th summary field in the report
Field(i) == report_pdf.extracted_info[i + 1][2]

\* C1 as stated: after every send with non-empty input, successful or failed,
\* the last message of the stored conversation is an assistant message
\* holding the text shown to the user.
C1_LastStoredIsShown ==
    SentText => Last(conversation_history) = Message(ASSISTANT, Shown)

\* C1 amended: the text shown is always the last line of the view behind
\* "AI: "; the stored conversation ends with the assistant reply after a
\* successful call, and with the user's own message after a failed call,
\* whose error text is stored nowhere in the conversation.
C1_ErrorOnlyInView ==
    SentText =>
       /\ Last(chat_history) = AI_PREFIX \o Shown
       /\ IF event.reply.ok
          THEN Last(conversation_history) = Message(ASSISTANT, Shown)
          ELSE /\ Last(conversation_history) = Message(USER, Strip(event.text))
               /\ \A i \in 1..Len(conversation_history) :
                      conversation_history[i].content # Shown

C1_Witness == SentText /\ ~event.reply.ok /\ Len(conversation_history) = 2

\* C2: every step leaves the stored conversation a prefix of the new one:
\* messages are only appended, never edited, removed or reordered.
C2_AppendOnly ==
    [][IsPrefix(conversation_history, conversation_history')]_vars

C2_Witness ==
    /\ event.op = "extract"
    /\ Len(conversation_history) = 3
    /\ conversation_history[2].role = USER
    /\ conversation_history[3].role = ASSISTANT

\* every spelling of "hello" and "hi" in upper and lower case letters
GreetingSpellings ==
    { <<a, b, c, d, e>> : a \in {"h", "H"}, b \in {"e", "E"}, c \in {"l", "L"},
                          d \in {"l", "L"}, e \in {"o", "O"} }
    \cup { <<a, b>> : a \in {"h", "H"}, b \in {"i", "I"} }

\* the positions of the user messages that are not a greeting
Answered ==
    { i \in 1..Len(conversation_history) :
         /\ conversation_history[i].role = USER
         /\ conversation_history[i].content \notin GreetingSpellings }

\* the positions of Answered that are the k-th of them (at most one)
Nth(k) == { i \in Answered : Cardinality({j \in Answered : j <= i}) = k }

\* C3: the four values of the Field Extractor are the 1st to 4th user
\* message that is not "hello" or "hi" in any letter case, and "Not
\* specified" where there is no such message.
C3_PositionalSlots ==
    raw_info # <<>> =>
       \A k \in 1..4 :
          IF Nth(k) = {} THEN raw_info[k] = NOT_SPECIFIED
          ELSE \A i \in Nth(k) : raw_info[k] = conversation_history[i].content

C3_Witness ==
    /\ raw_info # <<>>
    /\ raw_info[4] = <<"h", "e", "l", "l", "o", " ", "t", "h", "e", "r", "e">>
    /\ raw_info[1] = <<"f", "e", "v", "e", "r">>
    /\ \E i \in 1..Len(conversation_history) :
          /\ \A j \in Nth(1) : i < j
          /\ conversation_history[i] = Message(USER, <<"H", "e", "l", "l", "o">>)

\* C4: when the report is written, each of the four fields is the summary's
\* value if the summary holds its key and the extractor's value for the
\* same key otherwise, key by key.
C4_MergePerKey ==
    (event.op = "extract" /\ ~crashed) =>
       LET summary == GenerateSummary(event.summary).obj
       IN  \A i \in 1..4 :
              /\ report_pdf.extracted_info[i + 1][1] = SUMMARY_KEYS[i]
              /\ IF \E j \in 1..Len(summary) : summary[j][1] = SUMMARY_KEYS[i]
                 THEN \E j \in 1..Len(summary) :
                         summary[j] = <<SUMMARY_KEYS[i], Field(i)>>
                 ELSE Field(i) = raw_info[i]

C4_Witness ==
    /\ event.op = "extract" /\ ~crashed
    /\ raw_info[1] = <<"f", "e", "v", "e", "r">>
    /\ Field(1) = <<"f", "e", "v", "e", "r">>
    /\ Field(2) = GATEWAY_VALUES[2]
    /\ Field(3) = NOT_SPECIFIED

\* the summarization of the last extract failed: the call raised or its
\* text is not valid JSON
SummaryFailed ==
    event.op = "extract"
    /\ (~event.summary.ok \/ ~JsonLoads(event.summary.content).ok)

\* C5: when the summarization fails, the report is written with all four
\* fields equal to "Error generating summary.".
C5_AllFieldsPlaceholder ==
    SummaryFailed =>
       /\ ~crashed
       /\ report_pdf.exists
       /\ \A i \in 1..4 : Field(i) = SUMMARY_ERROR

C5_Witness ==
    /\ SummaryFailed
    /\ event.summary.ok
    /\ raw_info[1] = <<"f", "e", "v", "e", "r">>

\* C6 as stated: every extract ends with the export and the report
\* written, whatever its remote calls returned.
C6_ReportAlwaysWritten ==
    event.op = "extract" =>
       /\ conversation_json.exists
       /\ report_pdf.exists
       /\ ~crashed

\* the messages a transcript export holds, read token by token
ExportedMessages(data) ==
    LET n == (Len(data) - 1) \div 10
        at(i) == 2 + 10 * (i - 1)
        shaped ==
           /\ Len(data) = 10 * n + 1 /\ n >= 1
           /\ data[1] = P("[") /\ data[Len(data)] = P("]")
           /\ \A i \in 1..n :
                 /\ data[at(i)] = P("{")
                 /\ data[at(i) + 1] = S(ROLE_KEY)
                 /\ data[at(i) + 2] = P(":")
                 /\ data[at(i) + 3].t = "string"
                 /\ data[at(i) + 4] = P(",")
                 /\ data[at(i) + 5] = S(CONTENT_KEY)
                 /\ data[at(i) + 6] = P(":")
                 /\ data[at(i) + 7].t = "string"
                 /\ data[at(i) + 8] = P("}")
                 /\ (i < n => data[at(i) + 9] = P(","))
    IN  IF shaped
        THEN [ok |-> TRUE,
              messages |-> [i \in 1..n |-> Message(data[at(i) + 3].v, data[at(i) + 7].v)]]
        ELSE [ok |-> FALSE, messages |-> <<>>]

\* C7: after an extract the export file holds exactly the messages of the
\* stored conversation, in order, and nothing of an earlier export.
C7_ExportIsTranscript ==
    event.op = "extract" =>
       /\ conversation_json.exists
       /\ ExportedMessages(conversation_json.data)
             = [ok |-> TRUE, messages |-> conversation_history]

\* a second extract after a send: the report is still the one of the first
C7_Witness ==
    /\ event.op = "extract" /\ crashed
    /\ report_pdf.exists
    /\ Len(report_pdf.chat_transcript) < Len(chat_history)
    /\ Len(conversation_history) = 3

\* C8: a send whose input is empty or only whitespace changes neither the
\* stored conversation nor the view, makes no remote call and raises
\* nothing.
C8_BlankSendDropped ==
    [][(event'.op = "send" /\ Blank(input_field)) =>
          /\ conversation_history' = conversation_history
          /\ chat_history' = chat_history
          /\ remote_calls' = <<>>
          /\ event'.reply = NoOutcome
          /\ crashed' = FALSE]_vars

C8_Witness ==
    /\ event.op = "send" /\ event.text # <<>> /\ Blank(event.text)
    /\ remote_calls = <<>>
    /\ Len(conversation_history) = 3

\* C9 as stated: a send with non-empty input makes exactly one remote call
\* and an extract exactly two, the summary then the near diagnosis.
C9_ExactCalls ==
    /\ SentText => remote_calls = <<"reply">>
    /\ event.op = "extract" => remote_calls = <<"summary", "near_diagnosis">>

\* C10: an extract leaves the stored conversation as it was, and an
\* extract repeated with the same name and remote answers, nothing in
\* between, leaves the same fields, report and export.
C10_ExtractOnlyReads ==
    [][event'.op = "extract" =>
          /\ conversation_history' = conversation_history
          /\ (event.op = "extract" /\ event' = event) =>
                 /\ report_pdf' = report_pdf
                 /\ conversation_json' = conversation_json
                 /\ raw_info' = raw_info]_vars

C10_Witness ==
    /\ event.op = "extract" /\ ~crashed
    /\ Len(conversation_history) = 2
    /\ Len(report_pdf.chat_transcript) = 3
    /\ report_pdf.assumptions = DIAG_ERROR_PREFIX \o event.diagnosis.detail

====
